---------------------------- MODULE Spec2Model ----------------------------
(***************************************************************************)
(* Model of pkg/serverless/invocationlifecycle: the LifecycleProcessor     *)
(* hooks (lifecycle.go) and the execution-span tracker (trace.go).         *)
(*                                                                         *)
(* Strings that the code parses (header values) are sequences of one-      *)
(* character strings, and strconv.ParseUint is computed over them.  A raw  *)
(* payload is a sequence of segments: noise characters, or one JSON object *)
(* text; the regular expression of convertRawPayload and json.Unmarshal    *)
(* are computed over that sequence.                                        *)
(*                                                                         *)
(* TLC integers are 32 bit, so the code's uint64 and int32 are modelled    *)
(* with the scaled widths UintBits and Int32Bits (Int32Bits < UintBits, as *)
(* 32 < 64), all arithmetic being done modulo the width as in the code.    *)
(***************************************************************************)
EXTENDS Integers, Sequences, FiniteSets, TLC

(***************************************************************************)
(* Bounds.                                                                 *)
(***************************************************************************)
\* width standing for uint64
UintBits == 6
\* width standing for int32
Int32Bits == 3
\* invocations delivered by the host in one behaviour
MaxInvocations == 2
\* changes made to the environment from outside in one behaviour
MaxEnvChanges == 1

MaxUint64 == 2^UintBits - 1

\* the timestamps of the host, in nanoseconds
Times == {1, 2}

(***************************************************************************)
(* Strings as sequences of characters.                                     *)
(***************************************************************************)
Digits == <<"0", "1", "2", "3", "4", "5", "6", "7", "8", "9">>
Letters == <<"a", "b", "c", "d", "e", "f", "g", "h", "i", "j", "k", "l", "m",
             "n", "o", "p", "q", "r", "s", "t", "u", "v", "w", "x", "y", "z">>
Capitals == <<"A", "B", "C", "D", "E", "F", "G", "H", "I", "J", "K", "L", "M",
              "N", "O", "P", "Q", "R", "S", "T", "U", "V", "W", "X", "Y", "Z">>

Range(seq) == {seq[i] : i \in 1..Len(seq)}

IndexOf(seq, c) == CHOOSE i \in 1..Len(seq) : seq[i] = c

LowerCase == [c \in Range(Capitals) |-> Letters[IndexOf(Capitals, c)]]

\* strconv's lower(c): an upper-case letter becomes its lower-case letter
lower(c) == IF c \in DOMAIN LowerCase THEN LowerCase[c] ELSE c

DigitValues ==
    [c \in Range(Digits) \cup Range(Letters) |->
        IF c \in Range(Digits) THEN IndexOf(Digits, c) - 1
        ELSE IndexOf(Letters, c) + 9]

\* the value of one digit character of ParseUint, or -1 when c is no digit
DigitVal(c) ==
    IF lower(c) \in DOMAIN DigitValues THEN DigitValues[lower(c)] ELSE -1

RECURSIVE ParseDigits(_, _, _)
\* the digit loop of strconv.ParseUint: n is the value so far
ParseDigits(s, base, n) ==
    IF s = <<>> THEN [val |-> n, err |-> "nil"]
    ELSE LET d == DigitVal(Head(s))
             cutoff == (MaxUint64 \div base) + 1
         IN  IF d < 0 \/ d >= base THEN [val |-> 0, err |-> "syntax"]
             ELSE IF n >= cutoff THEN [val |-> MaxUint64, err |-> "range"]
             ELSE IF n * base + d > MaxUint64
                  THEN [val |-> MaxUint64, err |-> "range"]
             ELSE ParseDigits(Tail(s), base, n * base + d)

\* strconv.ParseUint(s, 0, 64): the base is read from the prefix
ParseUint(s) ==
    IF s = <<>> THEN [val |-> 0, err |-> "syntax"]
    ELSE IF Head(s) = "0"
         THEN IF Len(s) >= 3 /\ lower(s[2]) = "b"
                   THEN ParseDigits(SubSeq(s, 3, Len(s)), 2, 0)
              ELSE IF Len(s) >= 3 /\ lower(s[2]) = "o"
                   THEN ParseDigits(SubSeq(s, 3, Len(s)), 8, 0)
              ELSE IF Len(s) >= 3 /\ lower(s[2]) = "x"
                   THEN ParseDigits(SubSeq(s, 3, Len(s)), 16, 0)
              ELSE ParseDigits(Tail(s), 8, 0)
    ELSE ParseDigits(s, 10, 0)

\* strings.ToLower over a string
ToLower(s) == [i \in 1..Len(s) |-> lower(s[i])]

\* int32(v) of a uint64 v: the low bits, read as a signed number
ToInt32(v) ==
    LET m == v % (2^Int32Bits)
    IN  IF m >= 2^(Int32Bits - 1) THEN m - 2^Int32Bits ELSE m

(***************************************************************************)
(* Raw payloads.  A payload is a sequence of segments: X is a run of text  *)
(* holding no brace, no newline and no JSON, NL a newline, LB and RB a     *)
(* stray brace, and an "obj" segment the one-line text of a JSON object,   *)
(* which starts with an opening and ends with a closing brace.             *)
(***************************************************************************)
X == [t |-> "x"]
NL == [t |-> "nl"]
LB == [t |-> "{"]
RB == [t |-> "}"]

TraceIDHeader == "x-datadog-trace-id"
ParentIDHeader == "x-datadog-parent-id"
SamplingPriorityHeader == "x-datadog-sampling-priority"
HeaderNames == {TraceIDHeader, ParentIDHeader, SamplingPriorityHeader}

\* JSON values of a header entry: a string, a number, or no entry
JStr(s) == [k |-> "str", s |-> s]
JNum == [k |-> "num", s |-> <<>>]
JMissing == [k |-> "missing", s |-> <<>>]

\* {"headers":{...}} with the entries of m, on one line
HeadersObject(m) == [t |-> "obj", k |-> "headers", m |-> m]
\* {...}: the entries of m as a top-level object (no "headers" key)
BareObject(m) == [t |-> "obj", k |-> "bare", m |-> m]
\* {"headers":null}
NullHeadersObject == [t |-> "obj", k |-> "null", m |-> [n \in HeaderNames |-> JMissing]]
\* {"headers":5}
NumHeadersObject == [t |-> "obj", k |-> "num", m |-> [n \in HeaderNames |-> JMissing]]
\* the same object as HeadersObject(m), pretty-printed over three lines:
\* the opening brace, then "headers": {...}, then the closing brace
PrettyHeadersObject(m) == <<LB, NL, X, BareObject(m), NL, RB>>

Opens(seg) == seg.t \in {"{", "obj"}
Closes(seg) == seg.t \in {"}", "obj"}

\* no newline in p[i..j]: the pattern's "." matches no newline
SameLine(p, i, j) == \A k \in i..j : p[k].t # "nl"

\* p[i..j] starts with an opening and ends with a closing brace on one line
Delimits(p, i, j) ==
    /\ Opens(p[i]) /\ Closes(p[j]) /\ SameLine(p, i, j)
    /\ (j > i \/ p[i].t = "obj")

MatchStarts(p) == {i \in 1..Len(p) : \E j \in i..Len(p) : Delimits(p, i, j)}

Min(S) == CHOOSE a \in S : \A b \in S : a <= b
Max(S) == CHOOSE a \in S : \A b \in S : a >= b

\* regexp.MustCompile(`{(?:|(.*))*}`).FindString(p): the leftmost match; the
\* loop prefers its empty alternative first, so "{}" is matched as it stands,
\* and otherwise (.*) is greedy and runs to the last closing brace of the line
FindString(p) ==
    IF MatchStarts(p) = {} THEN <<>>
    ELSE LET i == Min(MatchStarts(p))
             j == IF p[i].t = "{" /\ i < Len(p) /\ p[i + 1].t = "}" THEN i + 1
                  ELSE Max({e \in i..Len(p) : Delimits(p, i, e)})
         IN  SubSeq(p, i, j)

\* the invocationPayload zero value: Headers is a nil map
ZeroPayload == [HeadersNil |-> TRUE, Headers |-> [n \in {} |-> <<>>]]

\* json.Unmarshal of one object text into an invocationPayload.  A number
\* where a string is expected is reported as an error after the decoding
\* has gone on: the entry is stored with the empty string.
UnmarshalObject(obj) ==
    CASE obj.k = "headers" ->
           LET present == {n \in HeaderNames : obj.m[n].k # "missing"}
           IN  [payload |-> [HeadersNil |-> FALSE,
                             Headers |-> [n \in present |-> obj.m[n].s]],
                err |-> \E n \in present : obj.m[n].k = "num"]
      [] obj.k = "num" -> [payload |-> ZeroPayload, err |-> TRUE]
      [] OTHER -> [payload |-> ZeroPayload, err |-> FALSE]

\* json.Unmarshal([]byte(subString), &payload): the text is checked as a
\* whole first, and a syntax error leaves the payload untouched
Unmarshal(sub) ==
    IF Len(sub) = 1 /\ sub[1].t = "obj" THEN UnmarshalObject(sub[1])
    ELSE IF sub = <<LB, RB>> THEN [payload |-> ZeroPayload, err |-> FALSE]
    ELSE [payload |-> ZeroPayload, err |-> TRUE]

\* convertRawPayload: the error is logged and the payload returned as it is
convertRawPayload(rawPayload) == Unmarshal(FindString(rawPayload)).payload

\* payload.Headers[name]: a missing key reads as the empty string
HeaderValue(payload, name) ==
    IF name \in DOMAIN payload.Headers THEN payload.Headers[name] ELSE <<>>

(***************************************************************************)
(* The state.                                                              *)
(***************************************************************************)
VARIABLES
    currentExecutionInfo,  \* trace.go: the package's one executionStartInfo
    inferredSpan,          \* the inferred span the tracker reads and writes
    InferredSpansEnabled,  \* the package's inferred-span mode
    env,                   \* the process environment (os.Getenv)
    config,                \* config.Datadog
    phase,                 \* "idle" or "started": the host's two transitions
    invocations,           \* invocations started so far
    processTraceCalls,     \* payloads handed to lp.ProcessTrace in this invocation
    metrics,               \* error metrics sent to lp.Demux in this invocation
    inferredCalls,         \* requests made to the inferred-span builder
    envChanges,            \* changes made to env and config so far
    startCall,             \* the last OnInvokeStart: what DetectLambdaLibrary
                           \* returned and, when the tracker ran (made), the
                           \* arguments, the draws and what the slot held
    endCall                \* the last OnInvokeEnd: its inputs and what it read

vars == <<currentExecutionInfo, inferredSpan, InferredSpansEnabled, env, config,
          phase, invocations, processTraceCalls, metrics, inferredCalls,
          envChanges, startCall, endCall>>

\* a nil *uint64
NoPriority == -1
\* the UnixNano of the zero time.Time, which no invocation starts at
ZeroTime == -1

functionNameEnvVar == "AWS_LAMBDA_FUNCTION_NAME"

\* rand.Random.Uint64() draws one of these
RandIDs == {11, 12}

Str42 == <<"4", "2">>
Str2 == <<"2">>
Str7 == <<"7">>
StrBad == <<"z", "z">>

NoHeaders == [n \in HeaderNames |-> JMissing]
HeaderMap(tid, pid, sp) ==
    [n \in HeaderNames |-> IF n = TraceIDHeader THEN tid
                           ELSE IF n = ParentIDHeader THEN pid ELSE sp]

NoInvokeEventHeaders == [TraceID |-> <<>>, ParentID |-> <<>>]

\* the events the host delivers: a raw payload with the
\* LambdaInvokeEventHeaders of the invocation
LifecycleEvents ==
    { [payload |-> <<X>>, headers |-> NoInvokeEventHeaders],
      [payload |-> <<X, HeadersObject(HeaderMap(JStr(Str42), JStr(Str7),
                                                JStr(Str2))), X>>,
       headers |-> NoInvokeEventHeaders],
      [payload |-> <<LB, X, HeadersObject(HeaderMap(JStr(Str42), JMissing,
                                                    JMissing))>>,
       headers |-> [TraceID |-> StrBad, ParentID |-> <<"9">>]] }

EnvValues == {<<"T", "r", "u", "e">>, <<"f", "a", "l", "s", "e">>}
\* the request ID and the response payload of an ended invocation
LifecycleResults ==
    { [RequestID |-> "req-1", ResponseRawPayload |-> ""],
      [RequestID |-> "req-2", ResponseRawPayload |-> "resp"] }

ZeroExecutionStartInfo ==
    [startTime |-> ZeroTime, traceID |-> 0, spanID |-> 0, parentID |-> 0,
     samplingPriority |-> NoPriority, requestPayload |-> <<>>]

ZeroInferredSpan ==
    [Span |-> [TraceID |-> 0, SpanID |-> 0, ParentID |-> 0],
     SamplingPriority |-> NoPriority]

NoStartCall ==
    [made |-> FALSE, detect |-> FALSE, startTime |-> 0, rawPayload |-> <<>>,
     invokeEventHeaders |-> NoInvokeEventHeaders,
     traceID |-> 0, spanID |-> 0, inferred |-> ZeroInferredSpan,
     inferredAfter |-> ZeroInferredSpan,
     samplingPriority |-> NoPriority]

NoEndCall ==
    [made |-> FALSE, detect |-> FALSE, EndTime |-> 0, IsError |-> FALSE,
     RequestID |-> "", ResponseRawPayload |-> "", capture |-> FALSE,
     tracing |-> FALSE]

Init ==
    /\ currentExecutionInfo = ZeroExecutionStartInfo
    /\ inferredSpan = ZeroInferredSpan
    /\ InferredSpansEnabled \in BOOLEAN
    /\ env \in [DD_TRACE_ENABLED : EnvValues, DD_TRACE_MANAGED_SERVICES : EnvValues,
                AWS_LAMBDA_FUNCTION_NAME : {"fn"}]
    /\ config \in [capture_lambda_payload : BOOLEAN]
    /\ phase = "idle"
    /\ invocations = 0
    /\ processTraceCalls = <<>>
    /\ metrics = <<>>
    /\ inferredCalls = <<>>
    /\ envChanges = 0
    /\ startCall = NoStartCall
    /\ endCall = NoEndCall

(***************************************************************************)
(* trace.go: startExecutionSpan.                                           *)
(***************************************************************************)
\* lines 47-50 and 54: the fields every call assigns
ResetExecutionInfo(info, startTime, rawPayload, traceID, spanID) ==
    [info EXCEPT !.startTime = startTime, !.traceID = traceID,
                 !.spanID = spanID, !.parentID = 0,
                 !.requestPayload = rawPayload]

\* lines 56-59: the inferred span becomes the parent
AdoptInferredSpan(info, inf, enabled) ==
    IF enabled
    THEN [info EXCEPT !.traceID = inf.Span.TraceID, !.parentID = inf.Span.SpanID]
    ELSE info

\* a bug: the trace ID and the parent ID are applied only when both parse,
\* as the log line of the direct-invocation path has it
EmbeddedInfoJoint(info, enabled, payload) ==
    LET t == ParseUint(HeaderValue(payload, TraceIDHeader))
        p == ParseUint(HeaderValue(payload, ParentIDHeader))
        s == ParseUint(HeaderValue(payload, SamplingPriorityHeader))
        both == t.err = "nil" /\ p.err = "nil"
    IN  [info EXCEPT
           !.traceID = IF both THEN t.val ELSE @,
           !.parentID = IF both /\ ~enabled THEN p.val ELSE @,
           !.samplingPriority = IF s.err = "nil" THEN s.val ELSE @]

\* lines 62-86, the slot: each header that parses is applied
EmbeddedInfo(info, enabled, payload) ==
    LET t == ParseUint(HeaderValue(payload, TraceIDHeader))
        p == ParseUint(HeaderValue(payload, ParentIDHeader))
        s == ParseUint(HeaderValue(payload, SamplingPriorityHeader))
    IN  [info EXCEPT
           !.traceID = IF t.err = "nil" THEN t.val ELSE @,
           !.parentID = IF p.err = "nil" /\ ~enabled THEN p.val ELSE @,
           !.samplingPriority = IF s.err = "nil" THEN s.val ELSE @]

\* a bug: the parent ID is never handed to the inferred span
EmbeddedInferredNoParent(inf, enabled, payload) ==
    LET t == ParseUint(HeaderValue(payload, TraceIDHeader))
        s == ParseUint(HeaderValue(payload, SamplingPriorityHeader))
    IN  IF ~enabled THEN inf
        ELSE [inf EXCEPT
                !.Span.TraceID = IF t.err = "nil" THEN t.val ELSE @,
                !.SamplingPriority = IF s.err = "nil" THEN s.val ELSE @]

\* lines 62-86, the inferred span
EmbeddedInferred(inf, enabled, payload) ==
    LET t == ParseUint(HeaderValue(payload, TraceIDHeader))
        p == ParseUint(HeaderValue(payload, ParentIDHeader))
        s == ParseUint(HeaderValue(payload, SamplingPriorityHeader))
    IN  IF ~enabled THEN inf
        ELSE [inf EXCEPT
                !.Span.TraceID = IF t.err = "nil" THEN t.val ELSE @,
                !.Span.ParentID = IF p.err = "nil" THEN p.val ELSE @,
                !.SamplingPriority = IF s.err = "nil" THEN s.val ELSE @]

\* lines 87-96: both results of ParseUint are assigned as they come
DirectInfo(info, invokeEventHeaders) ==
    [info EXCEPT !.traceID = ParseUint(invokeEventHeaders.TraceID).val,
                 !.parentID = ParseUint(invokeEventHeaders.ParentID).val]

\* a bug: the direct-invocation headers come first
ResolveInfoDirectFirst(info, enabled, payload, invokeEventHeaders) ==
    IF invokeEventHeaders.TraceID # <<>>
    THEN DirectInfo(info, invokeEventHeaders)
    ELSE IF ~payload.HeadersNil THEN EmbeddedInfo(info, enabled, payload)
    ELSE info

\* lines 61-96: the embedded headers, else the direct-invocation headers
ResolveInfo(info, enabled, payload, invokeEventHeaders) ==
    IF ~payload.HeadersNil THEN EmbeddedInfo(info, enabled, payload)
    ELSE IF invokeEventHeaders.TraceID # <<>>
         THEN DirectInfo(info, invokeEventHeaders)
    ELSE info

\* the slot after startExecutionSpan; traceID and spanID are the two draws
startExecutionSpan(info, inf, enabled, startTime, rawPayload, invokeEventHeaders, traceID, spanID) ==
    ResolveInfo(
        AdoptInferredSpan(
            ResetExecutionInfo(info, startTime, rawPayload, traceID, spanID),
            inf, enabled),
        enabled, convertRawPayload(rawPayload), invokeEventHeaders)

\* the inferred span after startExecutionSpan
startExecutionSpanInferred(inf, enabled, rawPayload) ==
    IF ~convertRawPayload(rawPayload).HeadersNil
    THEN EmbeddedInferred(inf, enabled, convertRawPayload(rawPayload))
    ELSE inf

(***************************************************************************)
(* trace.go: endExecutionSpan.                                             *)
(***************************************************************************)
\* a bug: the payloads are attached whatever the setting is
SpanMetaAlways(info, capture, requestID, responsePayload) ==
    ("request_id" :> requestID) @@
    ("function.request" :> info.requestPayload) @@
    ("function.response" :> responsePayload)

\* lines 114-122: request_id always, the two payloads when capture is on
SpanMeta(info, capture, requestID, responsePayload) ==
    IF capture
    THEN ("request_id" :> requestID) @@
         ("function.request" :> info.requestPayload) @@
         ("function.response" :> responsePayload)
    ELSE ("request_id" :> requestID)

\* a bug: a duration is never negative
ExecutionSpanClamped(info, capture, resource, requestID, endTime, isError, responsePayload) ==
    [Service |-> "aws.lambda", Name |-> "aws.lambda", Resource |-> resource,
     Type |-> "serverless",
     TraceID |-> info.traceID, SpanID |-> info.spanID,
     ParentID |-> info.parentID,
     Start |-> info.startTime,
     Duration |-> IF endTime < info.startTime THEN 0
                  ELSE endTime - info.startTime,
     Meta |-> SpanMeta(info, capture, requestID, responsePayload),
     Error |-> IF isError THEN 1 ELSE 0]

\* a bug: the error indicator is never set
ExecutionSpanNoError(info, capture, resource, requestID, endTime, isError, responsePayload) ==
    [Service |-> "aws.lambda", Name |-> "aws.lambda", Resource |-> resource,
     Type |-> "serverless",
     TraceID |-> info.traceID, SpanID |-> info.spanID,
     ParentID |-> info.parentID,
     Start |-> info.startTime, Duration |-> endTime - info.startTime,
     Meta |-> SpanMeta(info, capture, requestID, responsePayload),
     Error |-> 0]

\* lines 102-126: the execution span
ExecutionSpan(info, capture, resource, requestID, endTime, isError, responsePayload) ==
    [Service |-> "aws.lambda", Name |-> "aws.lambda", Resource |-> resource,
     Type |-> "serverless",
     TraceID |-> info.traceID, SpanID |-> info.spanID,
     ParentID |-> info.parentID,
     Start |-> info.startTime, Duration |-> endTime - info.startTime,
     Meta |-> SpanMeta(info, capture, requestID, responsePayload),
     Error |-> IF isError THEN 1 ELSE 0]

\* lines 128-135: the chunk of the one span, with the priority when one is set
TraceChunk(info, span) ==
    [Spans |-> <<span>>,
     Priority |-> IF info.samplingPriority # NoPriority
                  THEN ToInt32(info.samplingPriority) ELSE 0]

\* lines 137-144: the api.Payload handed to processTrace
endExecutionSpan(info, capture, resource, requestID, endTime, isError, responsePayload) ==
    [Source |-> "receiver-stats",
     TracerPayload |->
        [Chunks |-> <<TraceChunk(info,
                         ExecutionSpan(info, capture, resource, requestID,
                                       endTime, isError, responsePayload))>>]]

(***************************************************************************)
(* The collaborators of lifecycle.go whose code is in other packages.      *)
(***************************************************************************)
\* inferredSpan.CreateInferredSpan: the builder starts a span of its own;
\* created holds the identifiers it gives it
CreateInferredSpan(inf, created) ==
    [Span |-> [TraceID |-> created.TraceID, SpanID |-> created.SpanID,
               ParentID |-> 0],
     SamplingPriority |-> NoPriority]

\* inferredSpan.CompleteInferredSpan: the inferred span is completed and
\* handed to the trace sink it was given
CompleteInferredSpan(inf, endTime, isError, requestID) ==
    [Source |-> "receiver-stats",
     TracerPayload |->
        [Chunks |-> <<[Spans |-> <<[TraceID |-> inf.Span.TraceID,
                                    SpanID |-> inf.Span.SpanID,
                                    ParentID |-> inf.Span.ParentID,
                                    Error |-> IF isError THEN 1 ELSE 0]>>,
                       Priority |-> IF inf.SamplingPriority # NoPriority
                                    THEN ToInt32(inf.SamplingPriority)
                                    ELSE 0]>>]]

\* serverlessMetrics.SendErrorsEnhancedMetric(tags, t, demux)
SendErrorsEnhancedMetric(t) ==
    [name |-> "aws.lambda.enhanced.errors", tags |-> "ExtraTags",
     timestamp |-> t]

(***************************************************************************)
(* lifecycle.go: the two hooks.                                            *)
(***************************************************************************)
StrTrue == <<"t", "r", "u", "e">>

\* a bug: the managed-services flag is not read
TracingEnabledOneFlag(e) == ToLower(e["DD_TRACE_ENABLED"]) = StrTrue

\* lines 40-41 and 65-66: both tracing flags hold
TracingEnabled(e) ==
    /\ ToLower(e.DD_TRACE_ENABLED) = StrTrue
    /\ ToLower(e.DD_TRACE_MANAGED_SERVICES) = StrTrue

\* a bug: the detection of the tracing library is not consulted at the start
StartSpanOwnedAlways(detect) == TRUE

\* line 36: the tracker runs unless a tracing library is detected
StartSpanOwned(detect) == ~detect

\* a bug: the test of line 54 the wrong way round
EndSpanOwnedInverted(detect) == detect

\* line 54: the span is built and sent unless a tracing library is detected
EndSpanOwned(detect) == ~detect

\* a bug: the metric is sent only for the invocations the tracker owns
ErrorMetricDueUndetected(detect, isError) == isError /\ ~detect

\* line 59
ErrorMetricDue(detect, isError) == isError

\* OnInvokeStart(startDetails, ctx), with what DetectLambdaLibrary returns,
\* the two draws of the random source and the inferred span the builder makes
OnInvokeStart(startDetails, detect, traceID, spanID, created) ==
    LET tracing == TracingEnabled(env)
        afterStart ==
            IF StartSpanOwned(detect)
            THEN startExecutionSpanInferred(inferredSpan, InferredSpansEnabled,
                                            startDetails.InvokeEventRawPayload)
            ELSE inferredSpan
    IN  /\ currentExecutionInfo' =
              IF StartSpanOwned(detect)
              THEN startExecutionSpan(currentExecutionInfo, inferredSpan,
                                      InferredSpansEnabled,
                                      startDetails.StartTime,
                                      startDetails.InvokeEventRawPayload,
                                      startDetails.InvokeEventHeaders,
                                      traceID, spanID)
              ELSE currentExecutionInfo
        /\ inferredSpan' = IF tracing THEN CreateInferredSpan(afterStart, created)
                           ELSE afterStart
        /\ inferredCalls' =
              IF tracing
              THEN <<[op |-> "create", EndTime |-> 0, IsError |-> FALSE,
                      RequestID |-> ""]>>
              ELSE <<>>
        /\ processTraceCalls' = <<>>
        /\ metrics' = <<>>
        /\ phase' = "started"
        /\ invocations' = invocations + 1
        /\ startCall' =
              IF StartSpanOwned(detect)
              THEN [made |-> TRUE, detect |-> detect,
                    startTime |-> startDetails.StartTime,
                    rawPayload |-> startDetails.InvokeEventRawPayload,
                    invokeEventHeaders |-> startDetails.InvokeEventHeaders,
                    traceID |-> traceID, spanID |-> spanID,
                    inferred |-> inferredSpan,
                    inferredAfter |-> afterStart,
                    samplingPriority |-> currentExecutionInfo.samplingPriority]
              ELSE [NoStartCall EXCEPT !.detect = detect]
        /\ endCall' = NoEndCall
        /\ UNCHANGED <<InferredSpansEnabled, env, config, envChanges>>

\* OnInvokeEnd(endDetails), with what DetectLambdaLibrary returns
OnInvokeEnd(endDetails, detect) ==
    LET tracing == TracingEnabled(env)
        capture == config.capture_lambda_payload
        executionCalls ==
            IF EndSpanOwned(detect)
            THEN <<[by |-> "execution",
                    payload |-> endExecutionSpan(currentExecutionInfo, capture,
                                    env[functionNameEnvVar],
                                    endDetails.RequestID, endDetails.EndTime,
                                    endDetails.IsError,
                                    endDetails.ResponseRawPayload)]>>
            ELSE <<>>
        inferredSinkCalls ==
            IF tracing
            THEN <<[by |-> "inferred",
                    payload |-> CompleteInferredSpan(inferredSpan,
                                    endDetails.EndTime, endDetails.IsError,
                                    endDetails.RequestID)]>>
            ELSE <<>>
    IN  /\ processTraceCalls' =
              processTraceCalls \o executionCalls \o inferredSinkCalls
        /\ metrics' =
              IF ErrorMetricDue(detect, endDetails.IsError)
              THEN Append(metrics, SendErrorsEnhancedMetric(endDetails.EndTime))
              ELSE metrics
        /\ inferredCalls' =
              IF tracing
              THEN Append(inferredCalls,
                          [op |-> "complete", EndTime |-> endDetails.EndTime,
                           IsError |-> endDetails.IsError,
                           RequestID |-> endDetails.RequestID])
              ELSE inferredCalls
        /\ phase' = "idle"
        /\ endCall' =
              [made |-> TRUE, detect |-> detect,
               EndTime |-> endDetails.EndTime, IsError |-> endDetails.IsError,
               RequestID |-> endDetails.RequestID,
               ResponseRawPayload |-> endDetails.ResponseRawPayload,
               capture |-> capture, tracing |-> tracing]
        /\ UNCHANGED <<currentExecutionInfo, inferredSpan, InferredSpansEnabled,
                       env, config, invocations, envChanges, startCall>>

(***************************************************************************)
(* The host and the environment.                                           *)
(***************************************************************************)
InvocationStartDetails ==
    {[StartTime |-> t, InvokeEventRawPayload |-> e.payload,
      InvokeEventHeaders |-> e.headers] : t \in Times, e \in LifecycleEvents}

InvocationEndDetails ==
    {[EndTime |-> t, IsError |-> b, RequestID |-> r.RequestID,
      ResponseRawPayload |-> r.ResponseRawPayload] :
        t \in Times, b \in BOOLEAN, r \in LifecycleResults}

\* the identifiers the inferred-span builder gives a span it creates
CreatedSpans == {[TraceID |-> 21, SpanID |-> 22], [TraceID |-> 23, SpanID |-> 24]}
NoDraw == 0
NoCreatedSpan == [TraceID |-> NoDraw, SpanID |-> NoDraw]

\* nothing is left of the last invocation's outputs
Delivered ==
    /\ processTraceCalls = <<>> /\ metrics = <<>> /\ inferredCalls = <<>>
    /\ startCall = NoStartCall /\ endCall = NoEndCall

\* the host starts an invocation, once the last one has ended; the draws
\* are made only when they are used
InvokeStart ==
    /\ phase = "idle"
    /\ Delivered
    /\ invocations < MaxInvocations
    /\ LET created == IF TracingEnabled(env) THEN CreatedSpans
                      ELSE {NoCreatedSpan}
       IN  \E d \in InvocationStartDetails, detect \in BOOLEAN :
             \E t \in (IF detect THEN {NoDraw} ELSE RandIDs),
                s \in (IF detect THEN {NoDraw} ELSE RandIDs), c \in created :
               OnInvokeStart(d, detect, t, s, c)

\* the host ends the invocation it started
InvokeEnd ==
    /\ phase = "started"
    /\ \E d \in InvocationEndDetails, detect \in BOOLEAN : OnInvokeEnd(d, detect)

\* the trace sink and the aggregator have taken what the ended invocation
\* handed them
Deliver ==
    /\ phase = "idle"
    /\ ~Delivered
    /\ processTraceCalls' = <<>>
    /\ metrics' = <<>>
    /\ inferredCalls' = <<>>
    /\ startCall' = NoStartCall
    /\ endCall' = NoEndCall
    /\ UNCHANGED <<currentExecutionInfo, inferredSpan, InferredSpansEnabled,
                   env, config, phase, invocations, envChanges>>

\* an environment variable is changed from outside between two reads
SetEnv ==
    /\ envChanges < MaxEnvChanges
    /\ \E name \in {"DD_TRACE_ENABLED", "DD_TRACE_MANAGED_SERVICES"},
          v \in EnvValues :
         /\ env[name] # v
         /\ env' = [env EXCEPT ![name] = v]
    /\ envChanges' = envChanges + 1
    /\ UNCHANGED <<currentExecutionInfo, inferredSpan, InferredSpansEnabled,
                   config, phase, invocations, processTraceCalls, metrics,
                   inferredCalls, startCall, endCall>>

\* the capture_lambda_payload setting is changed
SetConfig ==
    /\ envChanges < MaxEnvChanges
    /\ config' = [config EXCEPT !.capture_lambda_payload = ~@]
    /\ envChanges' = envChanges + 1
    /\ UNCHANGED <<currentExecutionInfo, inferredSpan, InferredSpansEnabled,
                   env, phase, invocations, processTraceCalls, metrics,
                   inferredCalls, startCall, endCall>>

Next == InvokeStart \/ InvokeEnd \/ Deliver \/ SetEnv \/ SetConfig

Spec == Init /\ [][Next]_vars

(***************************************************************************)
(* startExecutionSpan over many payloads: one OnInvokeStart, from the      *)
(* state the process starts in or a state an earlier invocation has left.  *)
(***************************************************************************)
TraceIDValues ==
    {JMissing, JStr(Str42), JStr(<<"0", "x", "1", "f">>), JStr(StrBad), JNum}
ParentIDValues ==
    {JMissing, JStr(Str7), JStr(StrBad), JStr(<<"9", "9", "9">>)}
SamplingPriorityValues ==
    {JMissing, JStr(Str2), JStr(<<"-", "1">>), JStr(<<"5">>)}

ResolveHeaderMaps ==
    {HeaderMap(t, p, sp) : t \in TraceIDValues, p \in ParentIDValues,
                           sp \in SamplingPriorityValues}

\* the texts a headers object is delivered in
Layouts(m) ==
    { <<HeadersObject(m)>>,
      <<X, HeadersObject(m), X>>,
      <<LB, X, HeadersObject(m)>>,
      <<HeadersObject(m), X, RB>>,
      <<LB, NL, HeadersObject(m), NL, RB>>,
      PrettyHeadersObject(m) }

ResolvePayloads ==
    UNION {Layouts(m) : m \in ResolveHeaderMaps}
      \cup { <<>>, <<X>>, <<LB, RB>>, <<RB, X, LB>>, <<NullHeadersObject>>,
             <<NumHeadersObject>> }

ResolveInvokeEventHeaders ==
    { NoInvokeEventHeaders,
      [TraceID |-> <<"2", "1">>, ParentID |-> <<"9">>],
      [TraceID |-> StrBad, ParentID |-> <<"9">>],
      [TraceID |-> <<"2", "1">>, ParentID |-> StrBad],
      [TraceID |-> <<"2", "1">>, ParentID |-> <<>>],
      [TraceID |-> <<>>, ParentID |-> <<"9">>] }

ResolveStartDetails ==
    {[StartTime |-> 1, InvokeEventRawPayload |-> p, InvokeEventHeaders |-> h] :
        p \in ResolvePayloads, h \in ResolveInvokeEventHeaders}

\* the payload of an earlier invocation that resolved every header
FullPayload ==
    <<X, HeadersObject(HeaderMap(JStr(Str42), JStr(Str7), JStr(Str2))), X>>

\* the slot and the inferred span as an earlier invocation leaves them: none
\* has run; one has run the tracker, and the builder has not or has made a
\* span; one has made a span only (a tracing library was detected)
Leftovers(enabled) ==
    LET info == startExecutionSpan(ZeroExecutionStartInfo, ZeroInferredSpan,
                                   enabled, 1, FullPayload,
                                   NoInvokeEventHeaders, 11, 12)
        inf == startExecutionSpanInferred(ZeroInferredSpan, enabled, FullPayload)
        made == CreateInferredSpan(inf, [TraceID |-> 21, SpanID |-> 22])
    IN  { [info |-> ZeroExecutionStartInfo, inferred |-> ZeroInferredSpan],
          [info |-> info, inferred |-> inf],
          [info |-> info, inferred |-> made],
          [info |-> ZeroExecutionStartInfo, inferred |-> made] }

InitResolve ==
    /\ InferredSpansEnabled \in BOOLEAN
    /\ \E l \in Leftovers(InferredSpansEnabled) :
         /\ currentExecutionInfo = l.info
         /\ inferredSpan = l.inferred
    /\ env \in [DD_TRACE_ENABLED : {<<"T", "r", "u", "e">>},
                DD_TRACE_MANAGED_SERVICES : EnvValues,
                AWS_LAMBDA_FUNCTION_NAME : {"fn"}]
    /\ config = [capture_lambda_payload |-> FALSE]
    /\ phase = "idle"
    /\ invocations = 0
    /\ processTraceCalls = <<>>
    /\ metrics = <<>>
    /\ inferredCalls = <<>>
    /\ envChanges = 0
    /\ startCall = NoStartCall
    /\ endCall = NoEndCall

ResolveStart ==
    /\ phase = "idle"
    /\ LET created == IF TracingEnabled(env) THEN CreatedSpans
                      ELSE {NoCreatedSpan}
       IN  \E d \in ResolveStartDetails, detect \in BOOLEAN :
             \E t \in (IF detect THEN {NoDraw} ELSE RandIDs),
                s \in (IF detect THEN {NoDraw} ELSE RandIDs), c \in created :
               OnInvokeStart(d, detect, t, s, c)

NextResolve == ResolveStart

SpecResolve == InitResolve /\ [][NextResolve]_vars

(***************************************************************************)
(* The sampling priority from the header to the chunk: whole invocations   *)
(* whose payloads differ in the sampling-priority header only.             *)
(***************************************************************************)
\* header values from 0 to the largest the unsigned parse accepts, one it
\* rejects, and no header
PriorityValues ==
    {JMissing, JStr(<<"0">>), JStr(Str2), JStr(<<"3">>), JStr(<<"4">>),
     JStr(<<"5">>), JStr(<<"6", "3">>), JStr(<<"-", "1">>)}

PriorityStartDetails ==
    {[StartTime |-> 1,
      InvokeEventRawPayload |->
          <<HeadersObject(HeaderMap(JStr(Str42), JMissing, sp))>>,
      InvokeEventHeaders |-> NoInvokeEventHeaders] : sp \in PriorityValues}
      \cup {[StartTime |-> 1, InvokeEventRawPayload |-> <<X>>,
              InvokeEventHeaders |-> NoInvokeEventHeaders]}

InitPriority ==
    /\ Init
    /\ env.DD_TRACE_MANAGED_SERVICES = <<"f", "a", "l", "s", "e">>
    /\ ~config.capture_lambda_payload

PriorityStart ==
    /\ phase = "idle"
    /\ Delivered
    /\ invocations < MaxInvocations
    /\ \E d \in PriorityStartDetails, detect \in BOOLEAN :
         \E t \in (IF detect THEN {NoDraw} ELSE {11}) :
           OnInvokeStart(d, detect, t, t + 1, NoCreatedSpan)

NextPriority == PriorityStart \/ InvokeEnd \/ Deliver

SpecPriority == InitPriority /\ [][NextPriority]_vars

(***************************************************************************)
(* What the claims read from a state.                                      *)
(***************************************************************************)
\* the sink calls made by line 56 of lifecycle.go (endExecutionSpan)
ExecutionCalls == SelectSeq(processTraceCalls, LAMBDA c : c.by = "execution")

\* the sink calls made by CompleteInferredSpan
InferredSinkCalls == SelectSeq(processTraceCalls, LAMBDA c : c.by = "inferred")

\* an execution span has been emitted for the invocation that has just ended
SpanEmitted == endCall.made /\ ~endCall.detect /\ Len(ExecutionCalls) = 1

EmittedChunk == ExecutionCalls[1].payload.TracerPayload.Chunks[1]
EmittedSpan == EmittedChunk.Spans[1]

\* a step of OnInvokeStart, of OnInvokeEnd
StartStep == phase = "idle" /\ phase' = "started"
EndStep == phase = "started" /\ phase' = "idle"

(***************************************************************************)
(* C1.  In an invocation in which library detection returns false at both  *)
(* hooks, the execution-span path calls the trace sink exactly once, at    *)
(* OnInvokeEnd and never at OnInvokeStart (no call has been made while the  *)
(* invocation is started), and the payload holds exactly one chunk holding  *)
(* exactly one span; this is so in every invocation, the first or a later.  *)
(***************************************************************************)
C1_ExecutionSpanOnce ==
    /\ phase = "started" => ExecutionCalls = <<>>
    /\ (phase = "idle" /\ endCall.made /\ ~endCall.detect /\ ~startCall.detect)
         => /\ Len(ExecutionCalls) = 1
            /\ Len(ExecutionCalls[1].payload.TracerPayload.Chunks) = 1
            /\ Len(ExecutionCalls[1].payload.TracerPayload.Chunks[1].Spans) = 1

C1_Witness ==
    /\ invocations = MaxInvocations /\ phase = "idle"
    /\ endCall.made /\ ~endCall.detect /\ startCall.made /\ ~startCall.detect
    /\ Len(ExecutionCalls) = 1

(***************************************************************************)
(* C2.  After startExecutionSpan every field of currentExecutionInfo is    *)
(* what the call computes from an empty slot, that is from the inputs of   *)
(* the current invocation alone; in particular, when the payload carries   *)
(* no parseable sampling-priority header the slot holds no priority and    *)
(* the chunk emitted for the invocation carries none (the zero default).   *)
(***************************************************************************)
C2_ResetWholesale ==
    startCall.made =>
      /\ currentExecutionInfo =
            startExecutionSpan(ZeroExecutionStartInfo, startCall.inferred,
                               InferredSpansEnabled, startCall.startTime,
                               startCall.rawPayload,
                               startCall.invokeEventHeaders,
                               startCall.traceID, startCall.spanID)
      /\ ParseUint(HeaderValue(convertRawPayload(startCall.rawPayload),
                               SamplingPriorityHeader)).err # "nil"
           => /\ currentExecutionInfo.samplingPriority = NoPriority
              /\ SpanEmitted => EmittedChunk.Priority = 0

(***************************************************************************)
(* C3.  As stated: when library detection returns true, OnInvokeStart and  *)
(* OnInvokeEnd leave currentExecutionInfo as it is and make no call of the *)
(* trace sink, whatever the tracing flags and the payload are, and an      *)
(* invocation ending with isError still sends the error metric.            *)
(***************************************************************************)
C3_Original ==
    [][/\ (StartStep /\ startCall'.detect)
            => /\ currentExecutionInfo' = currentExecutionInfo
               /\ processTraceCalls' = <<>>
       /\ (EndStep /\ endCall'.detect)
            => /\ currentExecutionInfo' = currentExecutionInfo
               /\ processTraceCalls' = processTraceCalls
               /\ endCall'.IsError
                    => metrics' = Append(metrics,
                          SendErrorsEnhancedMetric(endCall'.EndTime))]_vars

(***************************************************************************)
(* C3, amended.  When library detection returns true, OnInvokeStart and    *)
(* OnInvokeEnd leave currentExecutionInfo as it is and the execution-span  *)
(* path makes no call of the trace sink, whatever the tracing flags and    *)
(* the payload are; the sink is called by OnInvokeEnd exactly when both    *)
(* tracing flags hold, once, by the completion of the inferred span; and   *)
(* an invocation ending with isError still sends the error metric.         *)
(***************************************************************************)
C3_LibraryDetected ==
    [][/\ (StartStep /\ startCall'.detect)
            => /\ currentExecutionInfo' = currentExecutionInfo
               /\ processTraceCalls' = <<>>
       /\ (EndStep /\ endCall'.detect)
            => /\ currentExecutionInfo' = currentExecutionInfo
               /\ ExecutionCalls' = <<>>
               /\ Len(processTraceCalls') =
                     Len(processTraceCalls)
                       + (IF TracingEnabled(env) THEN 1 ELSE 0)
               /\ Len(InferredSinkCalls') = Len(processTraceCalls')
               /\ endCall'.IsError
                    => metrics' = Append(metrics,
                          SendErrorsEnhancedMetric(endCall'.EndTime))]_vars

C3_Witness ==
    /\ phase = "idle" /\ endCall.made /\ endCall.detect /\ startCall.detect
    /\ endCall.IsError /\ Len(metrics) = 1
    /\ endCall.tracing /\ Len(processTraceCalls) = 1
    /\ currentExecutionInfo = ZeroExecutionStartInfo

(***************************************************************************)
(* What the claims read from the arguments of startExecutionSpan.          *)
(***************************************************************************)
\* the headers objects a payload embeds, on one line or pretty-printed
EmbeddedHeaderMaps(p) ==
    {p[i].m : i \in {j \in 1..Len(p) :
        /\ p[j].t = "obj"
        /\ \/ p[j].k = "headers"
           \/ /\ p[j].k = "bare" /\ j >= 4 /\ j + 2 <= Len(p)
              /\ SubSeq(p, j - 3, j + 2) = PrettyHeadersObject(p[j].m)}}

\* the trace IDs of the embedded headers objects whose trace-ID header parses
ParseableTraceIDs(p) ==
    {ParseUint(m[TraceIDHeader].s).val :
        m \in {h \in EmbeddedHeaderMaps(p) :
                 /\ h[TraceIDHeader].k = "str"
                 /\ ParseUint(h[TraceIDHeader].s).err = "nil"}}

\* the header mapping startExecutionSpan recovers from its payload
RecoveredPayload == convertRawPayload(startCall.rawPayload)
RecoveredTraceID == ParseUint(HeaderValue(RecoveredPayload, TraceIDHeader))
RecoveredParentID == ParseUint(HeaderValue(RecoveredPayload, ParentIDHeader))
RecoveredPriority ==
    ParseUint(HeaderValue(RecoveredPayload, SamplingPriorityHeader))

\* the trace ID and the parent ID before any header is applied: the draw and
\* 0, or in inferred-span mode the inferred span's trace ID and span ID
DefaultTraceID ==
    IF InferredSpansEnabled THEN startCall.inferred.Span.TraceID
    ELSE startCall.traceID
DefaultParentID ==
    IF InferredSpansEnabled THEN startCall.inferred.Span.SpanID ELSE 0

(***************************************************************************)
(* C4.  With inferred spans disabled, after startExecutionSpan of a        *)
(* payload that embeds a headers object whose trace-ID header parses,      *)
(* whatever text surrounds the object and whatever the direct-invocation   *)
(* headers are, TraceID() is the parsed value.                             *)
(***************************************************************************)
C4_EmbeddedTraceID ==
    (startCall.made /\ ~InferredSpansEnabled)
      => \A v \in ParseableTraceIDs(startCall.rawPayload) :
            currentExecutionInfo.traceID = v

(***************************************************************************)
(* C5.  When a header mapping is recovered from the payload, each of the   *)
(* three fields is decided by its own header alone: the trace ID is the    *)
(* parsed value if its header parses and else the default; the parent ID   *)
(* is the parsed value if its header parses (in inferred-span mode the     *)
(* parsed value goes to the inferred span instead) and else the default;   *)
(* the                                                                     *)
(* sampling priority is the parsed value if its header parses and else     *)
(* what the slot held before the call.  With inferred spans disabled, a    *)
(* parsed trace ID with an unparseable or missing parent ID gives that     *)
(* trace ID and parent ID 0.                                               *)
(***************************************************************************)
C5_FieldsIndependent ==
    (startCall.made /\ ~RecoveredPayload.HeadersNil)
      => /\ currentExecutionInfo.traceID =
               IF RecoveredTraceID.err = "nil" THEN RecoveredTraceID.val
               ELSE DefaultTraceID
         /\ currentExecutionInfo.parentID =
               IF RecoveredParentID.err = "nil" /\ ~InferredSpansEnabled
               THEN RecoveredParentID.val
               ELSE DefaultParentID
         /\ currentExecutionInfo.samplingPriority =
               IF RecoveredPriority.err = "nil" THEN RecoveredPriority.val
               ELSE startCall.samplingPriority
         /\ InferredSpansEnabled
              => /\ startCall.inferredAfter.Span.TraceID =
                       IF RecoveredTraceID.err = "nil"
                       THEN RecoveredTraceID.val
                       ELSE startCall.inferred.Span.TraceID
                 /\ startCall.inferredAfter.Span.ParentID =
                       IF RecoveredParentID.err = "nil"
                       THEN RecoveredParentID.val
                       ELSE startCall.inferred.Span.ParentID
                 /\ startCall.inferredAfter.SamplingPriority =
                       IF RecoveredPriority.err = "nil"
                       THEN RecoveredPriority.val
                       ELSE startCall.inferred.SamplingPriority
         /\ (~InferredSpansEnabled /\ RecoveredTraceID.err = "nil"
               /\ RecoveredParentID.err # "nil")
              => /\ currentExecutionInfo.traceID = RecoveredTraceID.val
                 /\ currentExecutionInfo.parentID = 0

C5_Witness ==
    /\ startCall.made /\ ~InferredSpansEnabled
    /\ ~RecoveredPayload.HeadersNil
    /\ RecoveredTraceID.err = "nil"
    /\ HeaderValue(RecoveredPayload, ParentIDHeader) = StrBad
    /\ RecoveredPriority.err = "nil"
    /\ currentExecutionInfo.traceID = 42
    /\ currentExecutionInfo.parentID = 0
    /\ currentExecutionInfo.samplingPriority = 2

(***************************************************************************)
(* C6.  In the direct-invocation path (no header mapping recovered, the    *)
(* direct trace ID not empty), when the trace ID or the parent ID does not *)
(* parse, the trace ID and the parent ID of the slot are both the          *)
(* defaults.                                                               *)
(***************************************************************************)
C6_DirectParseFailure ==
    (/\ startCall.made /\ RecoveredPayload.HeadersNil
     /\ startCall.invokeEventHeaders.TraceID # <<>>
     /\ \/ ParseUint(startCall.invokeEventHeaders.TraceID).err # "nil"
        \/ ParseUint(startCall.invokeEventHeaders.ParentID).err # "nil")
      => /\ currentExecutionInfo.traceID = DefaultTraceID
         /\ currentExecutionInfo.parentID = DefaultParentID

(***************************************************************************)
(* C7.  With inferred spans disabled and no direct-invocation trace ID,    *)
(* after startExecutionSpan of a payload with no brace-delimited substring *)
(* the slot holds the two random draws as trace ID and span ID, parent ID  *)
(* 0 and no sampling priority.                                             *)
(***************************************************************************)
C7_NoBraces ==
    (/\ startCall.made /\ ~InferredSpansEnabled
     /\ startCall.invokeEventHeaders.TraceID = <<>>
     /\ FindString(startCall.rawPayload) = <<>>)
      => /\ currentExecutionInfo.traceID = startCall.traceID
         /\ currentExecutionInfo.spanID = startCall.spanID
         /\ currentExecutionInfo.parentID = 0
         /\ currentExecutionInfo.samplingPriority = NoPriority

(***************************************************************************)
(* C8.  The span emitted by endExecutionSpan starts at the start time the  *)
(* startExecutionSpan of the same invocation stored, and its duration is   *)
(* the end time minus that start time, be it positive, zero or negative.   *)
(***************************************************************************)
C8_Duration ==
    (SpanEmitted /\ startCall.made)
      => /\ EmittedSpan.Start = startCall.startTime
         /\ EmittedSpan.Duration = endCall.EndTime - startCall.startTime

C8_Witness ==
    /\ SpanEmitted /\ startCall.made
    /\ endCall.EndTime < startCall.startTime
    /\ EmittedSpan.Duration < 0

(***************************************************************************)
(* C9.  The emitted execution span has Error = 1 exactly when isError was  *)
(* true at that OnInvokeEnd, and 0 otherwise, in every invocation.         *)
(***************************************************************************)
C9_ErrorIndicator ==
    (endCall.made /\ ~endCall.detect)
      => /\ Len(ExecutionCalls) = 1
         /\ EmittedSpan.Error = (IF endCall.IsError THEN 1 ELSE 0)

C9_Witness ==
    /\ invocations = MaxInvocations
    /\ SpanEmitted /\ endCall.IsError /\ EmittedSpan.Error = 1

(***************************************************************************)
(* C10.  Every emitted span has the request ID of the OnInvokeEnd under    *)
(* request_id; when capture_lambda_payload was false at that OnInvokeEnd   *)
(* its metadata has no function.request and no function.response entry.    *)
(***************************************************************************)
C10_CapturePayload ==
    (endCall.made /\ ~endCall.detect)
      => /\ Len(ExecutionCalls) = 1
         /\ "request_id" \in DOMAIN EmittedSpan.Meta
         /\ EmittedSpan.Meta["request_id"] = endCall.RequestID
         /\ ~endCall.capture
              => /\ "function.request" \notin DOMAIN EmittedSpan.Meta
                 /\ "function.response" \notin DOMAIN EmittedSpan.Meta

C10_Witness ==
    /\ SpanEmitted /\ ~endCall.capture
    /\ currentExecutionInfo.requestPayload # <<>>
    /\ endCall.ResponseRawPayload = "resp"
    /\ DOMAIN EmittedSpan.Meta = {"request_id"}

(***************************************************************************)
(* C11.  OnInvokeEnd sends the invocation-error enhanced metric exactly    *)
(* once, with the end time as its timestamp, when isError is true, and     *)
(* sends none when it is false, whatever library detection returns and     *)
(* whatever the tracing flags are; OnInvokeStart sends none.               *)
(***************************************************************************)
C11_ErrorMetric ==
    /\ phase = "started" => metrics = <<>>
    /\ endCall.made
         => IF endCall.IsError
            THEN /\ Len(metrics) = 1
                 /\ metrics[1].name = "aws.lambda.enhanced.errors"
                 /\ metrics[1].timestamp = endCall.EndTime
            ELSE metrics = <<>>

C11_Witness ==
    /\ endCall.made /\ endCall.detect /\ endCall.IsError /\ ~endCall.tracing
    /\ invocations = MaxInvocations
    /\ Len(metrics) = 1 /\ metrics[1].timestamp = endCall.EndTime

\* both tracing flags hold in the environment as it is now
BothFlagsTrue ==
    /\ ToLower(env["DD_TRACE_ENABLED"]) = <<"t", "r", "u", "e">>
    /\ ToLower(env["DD_TRACE_MANAGED_SERVICES"]) = <<"t", "r", "u", "e">>

(***************************************************************************)
(* C12.  OnInvokeStart requests inferred-span creation exactly when both   *)
(* tracing flags hold at that call, and OnInvokeEnd requests inferred-span *)
(* completion exactly when both hold at that call, whatever library        *)
(* detection returns; the completion request carries the end time, the     *)
(* error flag and the request ID of that OnInvokeEnd, which are those of   *)
(* the execution span when one is emitted.                                 *)
(***************************************************************************)
C12_InferredRequests ==
    [][/\ StartStep
          => inferredCalls' =
                IF BothFlagsTrue
                THEN <<[op |-> "create", EndTime |-> 0, IsError |-> FALSE,
                        RequestID |-> ""]>>
                ELSE <<>>
       /\ EndStep
          => /\ inferredCalls' =
                   IF BothFlagsTrue
                   THEN Append(inferredCalls,
                               [op |-> "complete", EndTime |-> endCall'.EndTime,
                                IsError |-> endCall'.IsError,
                                RequestID |-> endCall'.RequestID])
                   ELSE inferredCalls
             /\ (BothFlagsTrue /\ SpanEmitted')
                  => LET c == inferredCalls'[Len(inferredCalls')]
                     IN  /\ c.EndTime = EmittedSpan'.Start + EmittedSpan'.Duration
                         /\ c.IsError = (EmittedSpan'.Error = 1)
                         /\ c.RequestID = EmittedSpan'.Meta["request_id"]
      ]_vars

C12_Witness ==
    /\ SpanEmitted /\ endCall.IsError
    /\ startCall.detect = FALSE /\ startCall.made
    /\ Len(inferredCalls) = 2
    /\ inferredCalls[1].op = "create"
    /\ inferredCalls[2] = [op |-> "complete", EndTime |-> endCall.EndTime,
                           IsError |-> TRUE, RequestID |-> endCall.RequestID]
    /\ EmittedSpan.Meta["request_id"] = endCall.RequestID

(***************************************************************************)
(* C13.  After an OnInvokeEnd that emitted the execution span, the slot no *)
(* longer holds what the ended invocation stored: its start time, span ID, *)
(* trace ID, parent ID, sampling priority and request payload are gone, so *)
(* SpanID() and TraceID() in the idle state do not return the identifiers  *)
(* of the span just emitted.                                               *)
(***************************************************************************)
C13_ResetAtEnd ==
    (phase = "idle" /\ SpanEmitted /\ startCall.made)
      => /\ currentExecutionInfo.startTime # startCall.startTime
         /\ currentExecutionInfo.spanID # EmittedSpan.SpanID
         /\ currentExecutionInfo.traceID # EmittedSpan.TraceID
              \/ EmittedSpan.TraceID = 0
         /\ currentExecutionInfo.samplingPriority = NoPriority
         /\ currentExecutionInfo.requestPayload # startCall.rawPayload
              \/ startCall.rawPayload = <<>>

\* startExecutionSpan took the direct-invocation path (lines 87-96)
DirectPathTaken ==
    /\ startCall.made /\ RecoveredPayload.HeadersNil
    /\ startCall.invokeEventHeaders.TraceID # <<>>

\* the execution span and the inferred span as startExecutionSpan left them
\* are correlated
Correlated ==
    /\ currentExecutionInfo.traceID = startCall.inferredAfter.Span.TraceID
    /\ currentExecutionInfo.parentID = startCall.inferredAfter.Span.SpanID

(***************************************************************************)
(* C14.  With inferred-span mode enabled, after                             *)
(* startExecutionSpan the execution span's trace ID is the inferred span's *)
(* trace ID and its parent ID is the inferred span's span ID, whenever no  *)
(* embedded trace-ID header is parsed and whenever one is.                 *)
(***************************************************************************)
C14_Correlated ==
    (startCall.made /\ InferredSpansEnabled) => Correlated

(***************************************************************************)
(* C15.  A parsed embedded parent-ID header is applied to exactly one      *)
(* span: with inferred-span mode disabled it becomes the execution span's  *)
(* parent ID and the inferred span is left alone; with the mode enabled it *)
(* becomes the inferred span's parent ID and the execution span's parent   *)
(* ID stays the inferred span's span ID.  A parsed sampling priority is    *)
(* recorded on the execution info and, when the mode is enabled, also on   *)
(* the inferred span.                                                      *)
(***************************************************************************)
C15_ParentAndPriority ==
    (startCall.made /\ ~RecoveredPayload.HeadersNil)
      => /\ RecoveredParentID.err = "nil"
              => IF InferredSpansEnabled
                 THEN /\ startCall.inferredAfter.Span.ParentID =
                            RecoveredParentID.val
                      /\ currentExecutionInfo.parentID =
                            startCall.inferred.Span.SpanID
                      /\ startCall.inferredAfter.Span.SpanID =
                            startCall.inferred.Span.SpanID
                 ELSE /\ currentExecutionInfo.parentID = RecoveredParentID.val
                      /\ startCall.inferredAfter = startCall.inferred
         /\ RecoveredPriority.err = "nil"
              => /\ currentExecutionInfo.samplingPriority = RecoveredPriority.val
                 /\ startCall.inferredAfter.SamplingPriority =
                       IF InferredSpansEnabled THEN RecoveredPriority.val
                       ELSE startCall.inferred.SamplingPriority

C15_Witness ==
    /\ startCall.made /\ InferredSpansEnabled
    /\ startCall.inferred =
          [Span |-> [TraceID |-> 21, SpanID |-> 22, ParentID |-> 0],
           SamplingPriority |-> NoPriority]
    /\ ~RecoveredPayload.HeadersNil
    /\ RecoveredParentID = [val |-> 7, err |-> "nil"]
    /\ RecoveredPriority = [val |-> 5, err |-> "nil"]
    /\ startCall.inferredAfter.Span.ParentID = 7
    /\ startCall.inferredAfter.SamplingPriority = 5
    /\ currentExecutionInfo.parentID = 22
    /\ currentExecutionInfo.samplingPriority = 5

(***************************************************************************)
(* C16.  The direct-invocation headers are consulted only when no header   *)
(* mapping was recovered from the payload and the direct trace ID is not   *)
(* empty.  In every other call no value of the direct headers reaches the  *)
(* slot: with a mapping recovered, the trace ID and the parent ID are the  *)
(* parsed embedded values or the defaults, even when neither embedded      *)
(* header parses; with none recovered and an empty direct trace ID they    *)
(* are the defaults, whatever the direct parent ID is.                     *)
(***************************************************************************)
C16_Precedence ==
    (startCall.made /\ ~DirectPathTaken)
      => /\ currentExecutionInfo.traceID =
               IF ~RecoveredPayload.HeadersNil /\ RecoveredTraceID.err = "nil"
               THEN RecoveredTraceID.val
               ELSE DefaultTraceID
         /\ currentExecutionInfo.parentID =
               IF /\ ~RecoveredPayload.HeadersNil
                  /\ RecoveredParentID.err = "nil"
                  /\ ~InferredSpansEnabled
               THEN RecoveredParentID.val
               ELSE DefaultParentID

C16_Witness ==
    /\ startCall.made /\ ~InferredSpansEnabled
    /\ ~RecoveredPayload.HeadersNil
    /\ RecoveredTraceID.err # "nil" /\ RecoveredParentID.err # "nil"
    /\ startCall.invokeEventHeaders = [TraceID |-> <<"2", "1">>,
                                       ParentID |-> <<"9">>]
    /\ currentExecutionInfo.traceID = startCall.traceID
    /\ currentExecutionInfo.parentID = 0

\* json.Unmarshal reported an error for the substring of the payload
DecodeError == Unmarshal(FindString(startCall.rawPayload)).err

(***************************************************************************)
(* C17.  Whenever the decoder reports an error for the brace-delimited     *)
(* substring of the payload, no embedded header value is applied and the   *)
(* resolution goes on as for a payload without headers: with an empty      *)
(* direct trace ID the trace ID and the parent ID are the defaults, the    *)
(* sampling priority is what the slot held and the inferred span is left   *)
(* alone; with direct headers that parse, the trace ID and the parent ID   *)
(* are the direct values.                                                  *)
(***************************************************************************)
C17_DecodeFailure ==
    (startCall.made /\ DecodeError)
      => /\ currentExecutionInfo.samplingPriority = startCall.samplingPriority
         /\ startCall.inferredAfter = startCall.inferred
         /\ startCall.invokeEventHeaders.TraceID = <<>>
              => /\ currentExecutionInfo.traceID = DefaultTraceID
                 /\ currentExecutionInfo.parentID = DefaultParentID
         /\ (/\ startCall.invokeEventHeaders.TraceID # <<>>
             /\ ParseUint(startCall.invokeEventHeaders.TraceID).err = "nil"
             /\ ParseUint(startCall.invokeEventHeaders.ParentID).err = "nil")
              => /\ currentExecutionInfo.traceID =
                       ParseUint(startCall.invokeEventHeaders.TraceID).val
                 /\ currentExecutionInfo.parentID =
                       ParseUint(startCall.invokeEventHeaders.ParentID).val

(***************************************************************************)
(* C18.  When the startExecutionSpan of an invocation resolved a sampling  *)
(* priority, the chunk emitted at its end carries that value as its        *)
(* priority, for every value the unsigned parse accepts; when it resolved  *)
(* none, the chunk carries the zero default.                               *)
(***************************************************************************)
C18_ChunkPriority ==
    (SpanEmitted /\ startCall.made)
      => EmittedChunk.Priority =
            IF ~RecoveredPayload.HeadersNil /\ RecoveredPriority.err = "nil"
            THEN RecoveredPriority.val
            ELSE 0

\* the requests made of the inferred-span builder in the invocation
Requested(op) == \E i \in 1..Len(inferredCalls) : inferredCalls[i].op = op

(***************************************************************************)
(* C19.  A change of the environment made between the OnInvokeStart and    *)
(* the OnInvokeEnd of an invocation does not alter that invocation: when   *)
(* OnInvokeEnd has run, inferred-span completion has been requested        *)
(* exactly when inferred-span creation was requested at the matching       *)
(* OnInvokeStart.                                                          *)
(***************************************************************************)
C19_SettingsPerInvocation ==
    endCall.made => (Requested("complete") <=> Requested("create"))

(***************************************************************************)
(* C20.  Every execution span handed to the trace sink carries what the    *)
(* OnInvokeStart of the same invocation recorded: that OnInvokeStart ran   *)
(* the tracker, and the span's start time, span ID, trace ID and parent    *)
(* ID are those the slot was given then; so too when library detection     *)
(* returns true at the start and false at the end of the invocation.       *)
(***************************************************************************)
C20_SpanOfSameInvocation ==
    (endCall.made /\ Len(ExecutionCalls) > 0)
      => /\ startCall.made
         /\ EmittedSpan.Start = startCall.startTime
         /\ EmittedSpan.SpanID = startCall.spanID
         /\ EmittedSpan.TraceID = currentExecutionInfo.traceID
         /\ EmittedSpan.ParentID = currentExecutionInfo.parentID

(***************************************************************************)
(* C21.  In inferred-span mode, when OnInvokeStart has run the tracker and *)
(* requested the creation of the inferred span, the inferred span the      *)
(* execution span adopted is the one created for this invocation: it is    *)
(* the inferred span the invocation now has, and the execution span's      *)
(* trace ID and parent ID are that span's trace ID and span ID (the direct-*)
(* invocation path, which overwrites both, set aside).                     *)
(***************************************************************************)
C21_AdoptsOwnInferredSpan ==
    (/\ phase = "started" /\ startCall.made /\ InferredSpansEnabled
     /\ Requested("create") /\ ~DirectPathTaken)
      => /\ startCall.inferred.Span.SpanID = inferredSpan.Span.SpanID
         /\ currentExecutionInfo.parentID = inferredSpan.Span.SpanID
         /\ currentExecutionInfo.traceID = inferredSpan.Span.TraceID

=============================================================================
